---- MODULE Spec2Model ----
(***************************************************************************)
(* A model of the pocker process supervisor (src/index.ts).                *)
(*                                                                         *)
(* Every run of the CLI is one "invocation": a node process that executes  *)
(* one command synchronously and then either terminates or stays alive     *)
(* (attached mode) to serve child 'exit' events and SIGINT.  Invocations   *)
(* share nothing but the <name>.pid files of the working directory.        *)
(*                                                                         *)
(* A command, an 'exit' callback and the SIGINT callback each run to       *)
(* completion on node's single thread, so each is one action here.  The    *)
(* operating system contributes two kinds of step of its own: a process    *)
(* terminates (OsExit), and the spawn of a command may fail.               *)
(*                                                                         *)
(* Pids are handed out fresh (FirstPid, FirstPid + 1, ...); pid reuse by   *)
(* the OS is not modelled.                                                 *)
(*                                                                         *)
(* Three specifications:                                                   *)
(*   Spec      the supervisor, one handler per step;                       *)
(*   SpecCalls one invocation observed system call by system call while    *)
(*             other invocations run whole commands in between;            *)
(*   SpecEnv   the resolution of environment and arguments (a pure         *)
(*             function) over drawn inputs.                                *)
(***************************************************************************)
EXTENDS Integers, Sequences, FiniteSets, TLC

\* ------------------------------------------------------------------ bounds
\* Number of OS processes the model lets the supervisor spawn in one run.
MaxPid == 3
\* Number of invocations that can be alive (attached) at the same time.
MaxInv == 2
\* The pid the OS gives to the first process spawned.
FirstPid == 9

\* ----------------------------------------------------------- configuration
\* The keys of config.commands, in Object.keys order.
ConfigNames == <<"a", "b">>
Names == {ConfigNames[k] : k \in 1..Len(ConfigNames)}
\* A command name that is not in the configuration.
Unknown == "zz"
Targets == Names \cup {Unknown}
\* Names that are not configured and that every JavaScript object inherits
\* from Object.prototype; the model carries one of them.
InheritedNames == {"constructor"}
\* commandName omitted on the command line: every configured name.
All == "*"
\* config.commands[name].restart_on_fail
restart_on_fail == [n \in Names |-> n = "a"]

\* ------------------------------------------------------------ value spaces
Pids == FirstPid..(FirstPid + MaxPid - 1)
Slots == 1..MaxInv
\* The invocation id of a process that no living invocation listens to.
NoInv == 0
\* The id of an invocation while it runs a command that it does not outlive.
Temp == 0 - 1
\* childProcesses[name] is undefined.
NoChild == 0
\* childProcesses[name] is a ChildProcess whose pid is undefined.
BadChild == 0 - 1
\* parseInt of a text that does not start with a digit.
NaN == 0 - 2
NoFile == [exists |-> FALSE, data |-> <<>>]
\* No invocation is being observed call by call.
NoRun == [op |-> "none", todo |-> <<>>, pc |-> "idle", pid |-> NaN]
\* No environment is being resolved.
NoRes == [sys |-> <<>>, glob |-> <<>>, proc |-> <<>>, arg |-> <<>>, outs |-> <<>>]

VARIABLES
  files,   \* files[n]: the file <n>.pid, [exists, data (decimal digits)]
  procs,   \* the OS processes spawned so far, in spawn order (the k-th has
           \* pid FirstPid + k - 1):
           \*   name: the command it runs; st: "live" or "dead";
           \*   sig: a SIGTERM has been sent to it and is pending;
           \*   parent: the invocation that will get its 'exit' event
  inv,     \* inv[i]: the invocation in slot i
  run,     \* an invocation observed call by call while it runs a batch
           \* (see "a batch, call by call" below); idle in Spec
  res      \* the inputs and results of environment resolution (see
           \* "environment and arguments" below); empty outside SpecEnv

vars == <<files, procs, inv, run, res>>

\* ----------------------------------------------------- pid <-> text
RECURSIVE toString(_)
\* Number.prototype.toString of a non-negative integer, as decimal digits.
toString(n) ==
  IF n < 10 THEN <<n>> ELSE Append(toString(n \div 10), n % 10)

RECURSIVE parseDigits(_, _)
parseDigits(s, acc) ==
  IF s = <<>> \/ Head(s) \notin 0..9 THEN acc
  ELSE parseDigits(Tail(s), 10 * acc + Head(s))

\* parseInt(text, 10): the leading digits, NaN when there are none.
parseInt(s) ==
  IF s = <<>> \/ Head(s) \notin 0..9 THEN NaN ELSE parseDigits(s, 0)

\* ------------------------------------------------------------ the OS
\* The pids of the processes ps, and the process with a given pid.
PidsOf(ps) == FirstPid..(FirstPid + Len(ps) - 1)
Proc(ps, pid) == ps[pid - FirstPid + 1]
\* The pid the next spawn gets.
NextPid(ps) == FirstPid + Len(ps)

\* process.kill(pid, sig) succeeds (does not throw) iff pid is a process
\* that has not terminated.
Alive(ps, pid) == pid \in PidsOf(ps) /\ Proc(ps, pid).st = "live"

\* isRunning(pid): process.kill(pid, 0) inside try/catch.
isRunning(ps, pid) == Alive(ps, pid)

\* The effect of delivering SIGTERM to a live process: the signal is
\* pending; the process terminates in a later OsExit step.
Signal(ps, pid) == [ps EXCEPT ![pid - FirstPid + 1].sig = TRUE]

\* ------------------------------------------------- worlds and printing
\* The operators below are the functions of index.ts.  They thread a
\* "world" w through the code: w.files and w.procs are the shared state,
\* w.child is childProcesses of the invocation that runs the code, w.self
\* its slot, w.out what it has printed so far (a sequence of <<message,
\* name>>).
World(i, child) ==
  [files |-> files, procs |-> procs, child |-> child, self |-> i, out |-> <<>>]

say(w, msg, name) == [w EXCEPT !.out = Append(@, <<msg, name>>)]

\* A printed line that carries a pid: `... ${pid}` prints the number in
\* decimal.
sayPid(w, msg, name, pid) ==
  [w EXCEPT !.out = Append(@, <<msg, name, toString(pid)>>)]

unlinkSync(w, name) == [w EXCEPT !.files[name] = NoFile]

writeFileSync(w, name, data) ==
  [w EXCEPT !.files[name] = [exists |-> TRUE, data |-> data]]

\* ------------------------------------------------------ isProcessRunning
\* A faulty isProcessRunning: it never finds the process running.
isProcessRunning_never(w, name) == [val |-> FALSE, w |-> w]

\* index.ts isProcessRunning: the liveness check start makes.  Returns the
\* answer and the world (a stale pid file is removed).
isProcessRunning(w, name) ==
  IF w.files[name].exists
    THEN LET pid == parseInt(w.files[name].data) IN
         IF isRunning(w.procs, pid)
           THEN [val |-> TRUE, w |-> w]
           ELSE [val |-> FALSE, w |-> unlinkSync(w, name)]
    ELSE [val |-> FALSE, w |-> w]

\* ----------------------------------------------------------- startProcess
\* A faulty spawnAndRecord: it forgets to write the pid file.
spawnAndRecord_noPidFile(w, name, ok) ==
  IF ok /\ Len(w.procs) < MaxPid
    THEN LET pid == NextPid(w.procs)
             p   == [name |-> name, st |-> "live", sig |-> FALSE, parent |-> w.self]
         IN  say([w EXCEPT !.procs = Append(@, p), !.child[name] = pid], "Started", name)
    ELSE say([w EXCEPT !.child[name] = BadChild], "FailedToStart", name)

\* spawn(...): the OS creates a process (the next pid) unless it refuses
\* (ok = FALSE, or the model's pid space is used up).  The child object is
\* stored in childProcesses either way; the pid file is written only when
\* there is a pid.  The new process's 'exit' event goes to w.self.
spawnAndRecord(w, name, ok) ==
  IF ok /\ Len(w.procs) < MaxPid
    THEN LET pid == NextPid(w.procs)
             p   == [name |-> name, st |-> "live", sig |-> FALSE, parent |-> w.self]
             w1  == [w EXCEPT !.procs = Append(@, p), !.child[name] = pid]
         IN  say(writeFileSync(w1, name, toString(pid)), "Started", name)
    ELSE say([w EXCEPT !.child[name] = BadChild], "FailedToStart", name)

\* index.ts startProcess(name, detach).  ok: whether the OS will spawn.
\* (detach only changes how the child is tied to the invocation's
\* lifetime, which Finish models.)
startProcess(w, name, ok) ==
  IF name \notin Names
    THEN say(w, "NotFound", name)
    ELSE IF w.child[name] # NoChild
      THEN say(w, "AlreadyRunning", name)
      ELSE LET r == isProcessRunning(w, name) IN
           IF r.val THEN say(r.w, "AlreadyRunning", name)
                    ELSE spawnAndRecord(r.w, name, ok)

\* ------------------------------------------------------------ stopProcess
\* A faulty stopProcess: it signals the process and leaves the pid file.
stopProcess_keepsPidFile(w, name) ==
  IF ~w.files[name].exists
    THEN say(w, "NoPidFile", name)
    ELSE LET pid == parseInt(w.files[name].data) IN
         IF Alive(w.procs, pid)
           THEN say([w EXCEPT !.procs = Signal(@, pid)], "Stopped", name)
           ELSE say(w, "ErrorStopping", name)

\* index.ts stopProcess(name).  process.kill throws when the pid is not a
\* live process; the catch block only prints.
stopProcess(w, name) ==
  IF ~w.files[name].exists
    THEN say(w, "NoPidFile", name)
    ELSE LET pid == parseInt(w.files[name].data) IN
         IF Alive(w.procs, pid)
           THEN LET w1 == unlinkSync([w EXCEPT !.procs = Signal(@, pid)], name)
                    w2 == say(w1, "Stopped", name)
                    c  == w.child[name]
                IN  IF c # NoChild
                      THEN [w2 EXCEPT
                              !.procs = IF Alive(@, c) THEN Signal(@, c) ELSE @,
                              !.child[name] = NoChild]
                      ELSE w2
           ELSE say(w, "ErrorStopping", name)

\* --------------------------------------------------------- status queries
\* A faulty status check: it leaves a stale pid file in place.
checkStatusOne_noHeal(w, name) ==
  IF ~w.files[name].exists
    THEN say(w, "NotRunning", name)
    ELSE LET pid == parseInt(w.files[name].data) IN
         IF isRunning(w.procs, pid)
           THEN sayPid(w, "Running", name, pid)
           ELSE say(w, "NotRunning", name)

\* The body of checkStatus's loop for one name.
checkStatusOne(w, name) ==
  IF ~w.files[name].exists
    THEN say(w, "NotRunning", name)
    ELSE LET pid == parseInt(w.files[name].data) IN
         IF isRunning(w.procs, pid)
           THEN sayPid(w, "Running", name, pid)
           ELSE unlinkSync(say(w, "NotRunning", name), name)

\* The body of listProcesses's loop for one name.
listOne(w, name) ==
  IF w.files[name].exists
    THEN LET pid == parseInt(w.files[name].data) IN
         IF isRunning(w.procs, pid)
           THEN sayPid(w, "ListRunning", name, pid)
           ELSE say(unlinkSync(w, name), "ListStopped", name)
    ELSE say(w, "ListStopped", name)

\* const cmdConfig = commandsConfig[name]; if (!cmdConfig) ...: the test
\* passes for a key of config.commands, and for a name that the object
\* inherits from Object.prototype (commandsConfig["constructor"] is a
\* function).
Configured(name) == name \in Names \/ name \in InheritedNames

\* index.ts inspectProcess(name).
inspectProcess(w, name) ==
  IF ~Configured(name)
    THEN say(w, "NotFound", name)
    ELSE IF w.files[name].exists
      THEN LET pid == parseInt(w.files[name].data) IN
           IF isRunning(w.procs, pid)
             THEN sayPid(w, "InspectRunning", name, pid)
             ELSE say(unlinkSync(w, name), "InspectStopped", name)
      ELSE say(w, "InspectStopped", name)

\* ------------------------------------------------------------ the batches
\* name ? [name] : Object.keys(commandsConfig)
Services(target) == IF target = All THEN ConfigNames ELSE <<target>>
ServiceSet(target) == {Services(target)[k] : k \in 1..Len(Services(target))}

RECURSIVE startLoop_givesUp(_, _, _)
\* A faulty loop: it gives up at the first name whose spawn fails.
startLoop_givesUp(w, todo, bad) ==
  IF todo = <<>> THEN w
  ELSE IF Head(todo) \in bad THEN startProcess(w, Head(todo), FALSE)
  ELSE startLoop_givesUp(startProcess(w, Head(todo), TRUE), Tail(todo), bad)

RECURSIVE startLoop(_, _, _)
\* The for loop of startProcesses; bad: the names whose spawn the OS refuses.
startLoop(w, todo, bad) ==
  IF todo = <<>> THEN w
  ELSE startLoop(startProcess(w, Head(todo), Head(todo) \notin bad), Tail(todo), bad)

RECURSIVE stopLoop_givesUp(_, _)
\* A faulty loop: it gives up at the first name that is not running.
stopLoop_givesUp(w, todo) ==
  IF todo = <<>> THEN w
  ELSE IF ~w.files[Head(todo)].exists THEN stopProcess(w, Head(todo))
  ELSE stopLoop_givesUp(stopProcess(w, Head(todo)), Tail(todo))

RECURSIVE stopLoop(_, _)
\* index.ts stopProcesses: the for loop.
stopLoop(w, todo) ==
  IF todo = <<>> THEN w ELSE stopLoop(stopProcess(w, Head(todo)), Tail(todo))

stopProcesses(w, target) == stopLoop(w, Services(target))

RECURSIVE restartLoop(_, _, _)
\* index.ts restartProcesses: stop, then start, name by name.
restartLoop(w, todo, bad) ==
  IF todo = <<>> THEN w
  ELSE restartLoop(
         startProcess(stopProcess(w, Head(todo)), Head(todo), Head(todo) \notin bad),
         Tail(todo), bad)

RECURSIVE statusLoop(_, _)
statusLoop(w, todo) ==
  IF todo = <<>> THEN w ELSE statusLoop(checkStatusOne(w, Head(todo)), Tail(todo))

RECURSIVE listLoop(_, _)
listLoop(w, todo) ==
  IF todo = <<>> THEN w ELSE listLoop(listOne(w, Head(todo)), Tail(todo))

\* The tail of startProcesses: what it prints, and whether it parks the
\* invocation on stdin (attached, with at least one child object).
HasChildren(w) == \E n \in Names : w.child[n] # NoChild

startProcesses(w, target, detach, bad) ==
  LET w1 == startLoop(w, Services(target), bad) IN
  IF HasChildren(w1)
    THEN IF ~detach THEN say(w1, "ServicesStarted", All)
                    ELSE say(w1, "ServicesStartedBackground", All)
    ELSE say(w1, "NoServices", All)

restartProcesses(w, target, bad) == restartLoop(w, Services(target), bad)

\* ------------------------------------------------------- the exit callback
\* A faulty exit callback: it cleans up and never restarts.
onExit_noRestart(w, name, ok) ==
  LET w1 == say(w, "Exited", name)
      w2 == IF w1.files[name].exists THEN unlinkSync(w1, name) ELSE w1
  IN  [w2 EXCEPT !.child[name] = NoChild]

\* child.on("exit", ...) of startProcess, for a child of name `name`.
\* ok: whether the OS will spawn if the callback restarts the process.
onExit(w, name, ok) ==
  LET w1 == say(w, "Exited", name)
      w2 == IF w1.files[name].exists THEN unlinkSync(w1, name) ELSE w1
      w3 == [w2 EXCEPT !.child[name] = NoChild]
  IN  IF restart_on_fail[name]
        THEN startProcess(say(w3, "Restarting", name), name, ok)
        ELSE w3

\* ------------------------------------------------ an invocation's lifetime
NoChildren == [n \in Names |-> NoChild]
FreeInv == [st |-> "free", child |-> NoChildren, held |-> FALSE, err |-> FALSE]

\* The slot a new invocation takes if it stays alive (the lowest free one),
\* Temp when every slot is taken.
FreeSlot ==
  IF \E i \in Slots : inv[i].st = "free"
    THEN CHOOSE i \in Slots : inv[i].st = "free" /\ \A j \in Slots : inv[j].st = "free" => i <= j
    ELSE Temp

\* The children of invocation i whose 'exit' event it has not yet handled:
\* referenced handles that keep node's event loop alive.
Refs(ps, i) == \E p \in PidsOf(ps) : Proc(ps, p).parent = i

\* spawn emitted 'error' for a child (no pid): index.ts registers no 'error'
\* listener, so node raises it as an uncaught exception on the next tick.
ErrorPending(w) == \E n \in Names : w.child[n] = BadChild

\* When invocation i ends, nobody listens to its children any more; they
\* keep running.
Orphan(ps, i) ==
  [k \in 1..Len(ps) |-> IF ps[k].parent = i THEN [ps[k] EXCEPT !.parent = NoInv] ELSE ps[k]]

\* What is left when the synchronous code of invocation i has come to its
\* end with world w.  detach: children were unref'ed.  held: process.stdin
\* was resumed.  The invocation stays alive while something keeps its event
\* loop busy; otherwise it terminates and its slot is free again.
Finish(w, i, detach, held) ==
  LET stays == ~detach /\ (held \/ Refs(w.procs, i) \/ ErrorPending(w)) IN
  /\ stays => i \in Slots
  /\ files' = w.files
  /\ IF stays
       THEN /\ procs' = w.procs
            /\ inv' = [inv EXCEPT ![i] = [st |-> "alive", child |-> w.child,
                                          held |-> held, err |-> ErrorPending(w)]]
       ELSE /\ procs' = Orphan(w.procs, i)
            /\ inv' = IF i \in Slots THEN [inv EXCEPT ![i] = FreeInv] ELSE inv

\* ---------------------------------------------------------------- actions
Init ==
  /\ files = [n \in Targets |-> NoFile]
  /\ procs = <<>>
  /\ inv = [i \in Slots |-> FreeInv]
  /\ run = NoRun
  /\ res = NoRes

\* pocker start [name] [-d]
Start(target, detach, bad) ==
  LET i == FreeSlot
      w == startProcesses(World(i, NoChildren), target, detach, bad)
  IN  Finish(w, i, detach, ~detach /\ HasChildren(w))

\* pocker stop [name]
Stop(target) ==
  Finish(stopProcesses(World(Temp, NoChildren), target), Temp, FALSE, FALSE)

\* pocker restart [name] [-d]
Restart(target, detach, bad) ==
  LET i == FreeSlot
      w == restartProcesses(World(i, NoChildren), target, bad)
  IN  Finish(w, i, detach, FALSE)

\* pocker status [name]
Status(target) ==
  Finish(statusLoop(World(Temp, NoChildren), Services(target)), Temp, FALSE, FALSE)

\* pocker list
List ==
  Finish(listLoop(say(World(Temp, NoChildren), "Listing", All), ConfigNames),
         Temp, FALSE, FALSE)

\* pocker inspect <name>
Inspect(target) ==
  Finish(inspectProcess(World(Temp, NoChildren), target), Temp, FALSE, FALSE)

\* The OS: live process p terminates, on its own or because of a pending
\* SIGTERM.  If the invocation that spawned p is alive, node reaps p and runs
\* the 'exit' callback (ok: whether a restart's spawn succeeds); until it
\* is reaped a terminated child still answers signals, so other invocations
\* see the termination and the callback's effects together.
OsExit(p, ok) ==
  /\ Alive(procs, p)
  /\ LET i    == Proc(procs, p).parent
         n    == Proc(procs, p).name
         dead == [name |-> n, st |-> "dead", sig |-> FALSE, parent |-> NoInv]
         ps   == [procs EXCEPT ![p - FirstPid + 1] = dead]
     IN  IF i = NoInv
           THEN /\ procs' = ps
                /\ UNCHANGED <<files, inv>>
           ELSE /\ ~inv[i].err
                /\ Finish(onExit([World(i, inv[i].child) EXCEPT !.procs = ps], n, ok),
                          i, FALSE, inv[i].held)

\* process.on("SIGINT", ...): Ctrl+C on invocation i.
Interrupt(i) ==
  /\ inv[i].st = "alive"
  /\ ~inv[i].err
  /\ LET w == stopProcesses(say(World(i, inv[i].child), "ShuttingDown", All), All)
     IN  /\ files' = w.files
         /\ procs' = Orphan(w.procs, i)
         /\ inv' = [inv EXCEPT ![i] = FreeInv]
       
\* The uncaught 'error' event of a failed spawn ends invocation i.
Crash(i) ==
  /\ inv[i].st = "alive"
  /\ inv[i].err
  /\ procs' = Orphan(procs, i)
  /\ inv' = [inv EXCEPT ![i] = FreeInv]
  /\ UNCHANGED files

Next ==
  \/ \E t \in Targets \cup {All}, d \in BOOLEAN :
       \E bad \in SUBSET (ServiceSet(t) \cap Names) :
         Start(t, d, bad) /\ UNCHANGED <<run, res>>
  \/ \E t \in Targets \cup {All} : Stop(t) /\ UNCHANGED <<run, res>>
  \/ \E t \in Targets \cup {All}, d \in BOOLEAN :
       \E bad \in SUBSET (ServiceSet(t) \cap Names) :
         Restart(t, d, bad) /\ UNCHANGED <<run, res>>
  \/ \E t \in Targets \cup {All} : Status(t) /\ UNCHANGED <<run, res>>
  \/ List /\ UNCHANGED <<run, res>>
  \/ \E t \in Targets : Inspect(t) /\ UNCHANGED <<run, res>>
  \/ \E p \in Pids, ok \in BOOLEAN : OsExit(p, ok) /\ UNCHANGED <<run, res>>
  \/ \E i \in Slots : Interrupt(i) /\ UNCHANGED <<run, res>>
  \/ \E i \in Slots : Crash(i) /\ UNCHANGED <<run, res>>

Spec == Init /\ [][Next]_vars

TypeOK ==
  /\ Len(procs) <= MaxPid
  /\ \A i \in Slots : inv[i].st \in {"free", "alive"}

\* ------------------------------------------------------------ vocabulary
\* The processes of name n that have not terminated.
LiveProcs(ps, n) == {p \in PidsOf(ps) : Proc(ps, p).name = n /\ Alive(ps, p)}
\* ... and have not been sent a termination signal.
Unsignalled(ps, n) == {p \in LiveProcs(ps, n) : ~Proc(ps, p).sig}
\* The PidRecord of n holds pid q.
Holds(fs, n, q) == fs[n].exists /\ parseInt(fs[n].data) = q
\* The PidRecord of n references a live process.
LiveRecord(fs, ps, n) == fs[n].exists /\ Alive(ps, parseInt(fs[n].data))
\* The PidRecord of n exists and references no live process.
StaleRecord(fs, ps, n) == fs[n].exists /\ ~Alive(ps, parseInt(fs[n].data))
\* The invocations that can run code: a fresh one, and the attached ones.
Attached == {i \in Slots : inv[i].st = "alive" /\ ~inv[i].err}
\* The worlds in which code can run next: that of a fresh invocation and
\* those of the attached ones.
Worlds == {World(Temp, NoChildren)} \cup {World(i, inv[i].child) : i \in Attached}
\* The names of a report, in the order printed.
ReportNames(o) == [k \in 1..Len(o) |-> o[k][2]]

\* ---------------------------------------------------------------- C1
\* C1: in every reachable state, for every process name n, at most one
\* supervisor-spawned OS process for n is live and not yet sent a
\* termination signal.
C1_AtMostOneInstance ==
  \A n \in Names : Cardinality(Unsignalled(procs, n)) <= 1

\* ---------------------------------------------------------------- C2
\* C2: after restart(n), once the exit of the old process (the one the
\* restart's Stop signalled) has been handled by the invocation that held
\* it, exactly one live process exists for n and the PidRecord of n holds
\* its pid.  Stated on the step that handles the old process's exit: q is
\* the process the restart left recorded, p the signalled old process.
C2_RestartLeavesOneRecorded ==
  [][\A p, q \in Pids, ok \in BOOLEAN :
       ( /\ OsExit(p, ok)
         /\ ok /\ Len(procs) < MaxPid      \* the OS spawns if asked to
         /\ Proc(procs, p).sig
         /\ Proc(procs, p).parent \in Slots
         /\ q # p
         /\ q \in Unsignalled(procs, Proc(procs, p).name)
         /\ Holds(files, Proc(procs, p).name, q)
         /\ LiveProcs(procs, Proc(procs, p).name) = {p, q} )
       => /\ Holds(files', Proc(procs, p).name, q)
          /\ LiveProcs(procs', Proc(procs, p).name) = {q}]_vars

C4_InterruptOnlyOwnHandles ==
  [][\A i \in Slots :
       Interrupt(i) =>
         \A n \in Names :
           inv[i].child[n] = NoChild =>
             /\ files'[n] = files[n]
             /\ \A p \in LiveProcs(procs, n) :
                  Proc(procs', p).sig = Proc(procs, p).sig]_vars

\* ---------------------------------------------------------------- C5
\* C5: when invocation i is interrupted, every live OS process it holds as
\* a RuntimeHandle has been sent a termination signal when i terminates,
\* whatever the state of the PID store.  (Checked on runs that have not
\* used up the model's pids, so that no spawn failure is the model's own.)
C5_InterruptSignalsEveryHandle ==
  [][\A i \in Slots :
       (Interrupt(i) /\ Len(procs) < MaxPid) =>
         \A n \in Names :
           Alive(procs, inv[i].child[n]) => Proc(procs', inv[i].child[n]).sig]_vars

\* ---------------------------------------------------------------- C6
\* C6: when Stop(n) finds a PidRecord whose pid cannot be signalled (the
\* process is dead), the failure is reported for that name and the
\* PidRecord of n is still removed: after Stop(n) no PidRecord of n exists.
\* Stated of stopProcess applied in every reachable state.
C6_FailedSignalStillRemovesRecord ==
  \A w \in Worlds, n \in Names :
    StaleRecord(files, procs, n) =>
      /\ stopProcess(w, n).out = <<<<"ErrorStopping", n>>>>
      /\ ~stopProcess(w, n).files[n].exists

\* ---------------------------------------------------------------- C7
\* C7: Start(n) when the PidRecord of n references a live process, or when
\* the invocation already holds a RuntimeHandle for n, is a no-op: nothing
\* is spawned, the PID store and the handles are unchanged, and the report
\* is "already running".  Stated of startProcess applied in every
\* reachable state, by a fresh invocation and by every attached one,
\* whether or not the OS would spawn.
C7_StartWhenRunningIsNoOp ==
  \A w \in Worlds, n \in Names, ok \in BOOLEAN :
    (w.child[n] # NoChild \/ LiveRecord(files, procs, n)) =>
      LET r == startProcess(w, n, ok) IN
      /\ r.procs = procs
      /\ r.files = files
      /\ r.child = w.child
      /\ r.out = <<<<"AlreadyRunning", n>>>>

\* Both cases at once: an attached invocation holds a handle for a name
\* that has no PidRecord, while another name has a live PidRecord and no
\* handle in that invocation.
C7_Witness ==
  \E i \in Attached, n, m \in Names :
    /\ inv[i].child[n] # NoChild /\ ~files[n].exists
    /\ inv[i].child[m] = NoChild /\ LiveRecord(files, procs, m)

\* ---------------------------------------------------------------- C8
\* C8: Start(n) for a configured name with no PidRecord, or only a stale
\* one, and no RuntimeHandle in the invocation, when the spawn succeeds,
\* spawns exactly one OS process and leaves exactly one PidRecord for n,
\* whose pid is that of the new live process; the invocation holds a
\* RuntimeHandle for it.  Stated of startProcess applied in every
\* reachable state.
C8_StartSpawnsOneAndRecordsIt ==
  \A w \in Worlds, n \in Names :
    (w.child[n] = NoChild /\ ~LiveRecord(files, procs, n) /\ Len(procs) < MaxPid) =>
      LET r == startProcess(w, n, TRUE)
          q == NextPid(procs)
      IN  /\ r.procs = Append(procs, [name |-> n, st |-> "live", sig |-> FALSE,
                                      parent |-> w.self])
          /\ Alive(r.procs, q)
          /\ Holds(r.files, n, q)
          /\ r.files[n].data = toString(q)
          /\ \A m \in Targets \ {n} : r.files[m] = files[m]
          /\ r.child = [w.child EXCEPT ![n] = q]
          /\ r.out = <<<<"Started", n>>>>

\* After such a start over a stale record: an attached invocation holds the
\* live process that the PidRecord names, and an older process of the same
\* name is dead.
C8_Witness ==
  \E i \in Slots, n \in Names, q \in PidsOf(procs) :
    /\ inv[i].st = "alive" /\ inv[i].child[n] = q
    /\ Holds(files, n, q) /\ Alive(procs, q) /\ Proc(procs, q).name = n
    /\ LiveProcs(procs, n) = {q}
    /\ \E p \in PidsOf(procs) : p < q /\ Proc(procs, p).name = n

\* ---------------------------------------------------------------- C9
\* C9: Stop(n) when the PidRecord of n references a live process sends that
\* process a termination signal and removes the PidRecord; if the stopping
\* invocation holds a RuntimeHandle for n, that handle is signalled and
\* dropped; nothing else changes.  Stated of stopProcess applied in every
\* reachable state.
C9_StopSignalsAndRemoves ==
  \A w \in Worlds, n \in Names :
    LiveRecord(files, procs, n) =>
      LET pid == parseInt(files[n].data)
          c   == w.child[n]
          hit == {pid} \cup (IF Alive(procs, c) THEN {c} ELSE {})
          r   == stopProcess(w, n)
      IN  /\ \A p \in PidsOf(procs) :
               Proc(r.procs, p) =
                 IF p \in hit THEN [Proc(procs, p) EXCEPT !.sig = TRUE] ELSE Proc(procs, p)
          /\ Len(r.procs) = Len(procs)
          /\ r.files = [files EXCEPT ![n] = NoFile]
          /\ r.child = [w.child EXCEPT ![n] = NoChild]
          /\ r.out = <<<<"Stopped", n>>>>

\* C9, second half: once the signal takes effect (the process terminates)
\* the process does not answer a liveness probe, then or ever after.
C9_DeadStaysDead ==
  [][\A p \in Pids :
       /\ (\E ok \in BOOLEAN : OsExit(p, ok)) => ~isRunning(procs', p)
       /\ (p \in PidsOf(procs) /\ ~isRunning(procs, p)) => ~isRunning(procs', p)]_vars

\* C9, both halves.
C9_Stop == []C9_StopSignalsAndRemoves /\ C9_DeadStaysDead

\* An attached invocation holds a live, unsignalled process for a name
\* whose PidRecord references another live process: a Stop in that
\* invocation signals both.
C9_Witness ==
  \E i \in Attached, n \in Names :
    /\ LiveRecord(files, procs, n)
    /\ Alive(procs, inv[i].child[n])
    /\ inv[i].child[n] # parseInt(files[n].data)
    /\ ~Proc(procs, inv[i].child[n]).sig

\* ---------------------------------------------------------------- C10
\* C10: Stop(n) when no PidRecord of n exists is a no-op reported as not
\* running: no signal is sent, the PID store and the handles are unchanged;
\* and a batch stop goes on with the remaining names: every configured name
\* gets its report, and every name with a live PidRecord is stopped.
C10_StopWithoutRecordIsNoOp ==
  \A w \in Worlds :
    /\ \A n \in Targets :
         ~files[n].exists => stopProcess(w, n) = say(w, "NoPidFile", n)
    /\ LET r == stopProcesses(w, All) IN
       /\ ReportNames(r.out) = ConfigNames
       /\ \A n \in Names :
            /\ ~files[n].exists =>
                 /\ r.files[n] = files[n]
                 /\ r.child[n] = w.child[n]
                 /\ \E k \in 1..Len(r.out) : r.out[k] = <<"NoPidFile", n>>
            /\ LiveRecord(files, procs, n) =>
                 /\ ~r.files[n].exists
                 /\ Proc(r.procs, parseInt(files[n].data)).sig

\* The first configured name has no PidRecord although an attached
\* invocation holds a live process for it, and a later name has a live
\* PidRecord.
C10_Witness ==
  /\ ~files[ConfigNames[1]].exists
  /\ \E i \in Attached : Alive(procs, inv[i].child[ConfigNames[1]])
  /\ LiveRecord(files, procs, ConfigNames[2])

\* ---------------------------------------------------------------- C11
\* The state a function leaves behind, without what it printed.
Effect(w) == <<w.files, w.procs, w.child>>
\* The world in which the next call of the same invocation runs.
Again(w) == [w EXCEPT !.out = <<>>]

\* C11: every liveness query (isProcessRunning, the check start makes, and
\* the bodies of status, list and inspect) reports a name as running, with
\* the pid of its PidRecord, exactly when the PidRecord exists and its pid
\* is live, and changes nothing then; otherwise it reports the name as
\* stopped and what it leaves is the state without the PidRecord of that
\* name.  Repeating the query at once gives the same report and changes
\* nothing further.  Stated of the queries applied in every reachable
\* state.
C11_QueriesReportAndHeal ==
  \A w \in Worlds :
    /\ \A n \in Targets :
         LET live == LiveRecord(files, procs, n)
             pid  == toString(parseInt(files[n].data))
             gone == <<[files EXCEPT ![n] = NoFile], procs, w.child>>
             r    == isProcessRunning(w, n)
             s    == checkStatusOne(w, n)
         IN  /\ r.val = live
             /\ Effect(r.w) = IF live THEN Effect(w) ELSE gone
             /\ isProcessRunning(r.w, n) = r
             /\ s.out = IF live THEN <<<<"Running", n, pid>>>>
                                ELSE <<<<"NotRunning", n>>>>
             /\ live => parseInt(s.out[1][3]) = parseInt(files[n].data)
             /\ Effect(s) = IF live THEN Effect(w) ELSE gone
             /\ checkStatusOne(Again(s), n) = s
    /\ \A n \in Names :
         LET live == LiveRecord(files, procs, n)
             pid  == toString(parseInt(files[n].data))
             gone == <<[files EXCEPT ![n] = NoFile], procs, w.child>>
             l    == listOne(w, n)
             i    == inspectProcess(w, n)
         IN  /\ l.out = IF live THEN <<<<"ListRunning", n, pid>>>>
                                ELSE <<<<"ListStopped", n>>>>
             /\ Effect(l) = IF live THEN Effect(w) ELSE gone
             /\ listOne(Again(l), n) = l
             /\ i.out = IF live THEN <<<<"InspectRunning", n, pid>>>>
                                ELSE <<<<"InspectStopped", n>>>>
             /\ Effect(i) = IF live THEN Effect(w) ELSE gone
             /\ inspectProcess(Again(i), n) = i

\* One name has a PidRecord whose process is dead, another a PidRecord
\* with a live two-digit pid, and an attached invocation is there to ask.
C11_Witness ==
  /\ Attached # {}
  /\ \E n, m \in Names :
       /\ StaleRecord(files, procs, n)
       /\ LiveRecord(files, procs, m)
       /\ Len(files[m].data) = 2

\* ------------------------------------------------ a batch, call by call
\* Invocations are separate operating-system processes: between two system
\* calls of one, another may run.  SpecCalls observes ONE invocation at that
\* grain while it runs a batch command (no name given, detached), and lets
\* other invocations run whole commands in between.  run.todo is the rest
\* of the for loop (its head the name being worked on), run.pc the call the
\* invocation makes next, run.pid the local variable pid.  What the
\* invocation prints is left out.
\*   status : exists -> read -> unlink                     (checkStatus)
\*   stop   : sExists -> sRead -> sKill -> sUnlink         (stopProcess)
\*   start  : cExists -> cRead -> cUnlink                  (isProcessRunning)
\*            -> spawn -> open -> write                    (startProcess)
\*   restart: the calls of stop, then those of start, name by name
Ops == {"start", "stop", "restart", "status"}

FirstPc(op) ==
  CASE op = "start" -> "cExists" [] op = "status" -> "exists" [] OTHER -> "sExists"

Running == run.pc \notin {"idle", "done", "thrown"}
Current == Head(run.todo)
\* The names the for loop has not come to.
Remaining == IF run.todo = <<>> THEN <<>> ELSE Tail(run.todo)

\* The loop body returns: on to the next name, or the command is done.
NextName(r) ==
  IF Tail(r.todo) = <<>>
    THEN [r EXCEPT !.todo = <<>>, !.pc = "done", !.pid = NaN]
    ELSE [r EXCEPT !.todo = Tail(@), !.pc = FirstPc(r.op), !.pid = NaN]

\* stopProcess returns: restartProcesses goes on with startProcess.
AfterStop(r) ==
  IF r.op = "restart" THEN [r EXCEPT !.pc = "cExists", !.pid = NaN] ELSE NextName(r)

\* A call throws outside any try block: the exception is uncaught and node
\* terminates the invocation where it stands.
Throw(r) == [r EXCEPT !.pc = "thrown", !.pid = NaN]

\* pocker start|stop|restart|status, with no name.
Begin(op) ==
  /\ ~Running
  /\ run' = [op |-> op, todo |-> ConfigNames, pc |-> FirstPc(op), pid |-> NaN]
  /\ UNCHANGED <<files, procs, inv, res>>

\* fs.existsSync(pidFile)
StepExists ==
  /\ run.pc \in {"exists", "sExists", "cExists"}
  /\ run' = IF files[Current].exists
              THEN [run EXCEPT !.pc = CASE run.pc = "exists" -> "read"
                                        [] run.pc = "sExists" -> "sRead"
                                        [] OTHER -> "cRead"]
              ELSE CASE run.pc = "exists" -> NextName(run)
                     [] run.pc = "sExists" -> AfterStop(run)
                     [] OTHER -> [run EXCEPT !.pc = "spawn"]
  /\ UNCHANGED <<files, procs, inv, res>>

\* parseInt(fs.readFileSync(pidFile, "utf8"), 10): readFileSync throws when
\* the file is not there; none of its callers catches that.  In the queries
\* isRunning(pid) follows at once.
StepRead ==
  /\ run.pc \in {"read", "sRead", "cRead"}
  /\ run' = IF ~files[Current].exists THEN Throw(run)
            ELSE LET pid == parseInt(files[Current].data) IN
                 CASE run.pc = "sRead" -> [run EXCEPT !.pc = "sKill", !.pid = pid]
                   [] run.pc = "read" ->
                        IF isRunning(procs, pid) THEN NextName(run)
                        ELSE [run EXCEPT !.pc = "unlink"]
                   [] OTHER ->
                        IF isRunning(procs, pid) THEN NextName(run)
                        ELSE [run EXCEPT !.pc = "cUnlink"]
  /\ UNCHANGED <<files, procs, inv, res>>

\* process.kill(pid, "SIGTERM") in the try block of stopProcess.
StepKill ==
  /\ run.pc = "sKill"
  /\ IF Alive(procs, run.pid)
       THEN /\ procs' = Signal(procs, run.pid)
            /\ run' = [run EXCEPT !.pc = "sUnlink", !.pid = NaN]
       ELSE /\ procs' = procs
            /\ run' = AfterStop(run)
  /\ UNCHANGED <<files, inv, res>>

\* fs.unlinkSync(pidFile): throws when the file is not there.  Only
\* stopProcess makes the call inside a try block.
StepUnlink ==
  /\ run.pc \in {"unlink", "sUnlink", "cUnlink"}
  /\ IF files[Current].exists
       THEN /\ files' = [files EXCEPT ![Current] = NoFile]
            /\ run' = CASE run.pc = "unlink" -> NextName(run)
                        [] run.pc = "sUnlink" -> AfterStop(run)
                        [] OTHER -> [run EXCEPT !.pc = "spawn"]
       ELSE /\ files' = files
            /\ run' = IF run.pc = "sUnlink" THEN AfterStop(run) ELSE Throw(run)
  /\ UNCHANGED <<procs, inv, res>>

\* spawn(...) with detached: true; the child is unref'ed and outlives the
\* invocation, so nobody will handle its 'exit'.
StepSpawn(ok) ==
  /\ run.pc = "spawn"
  /\ IF ok /\ Len(procs) < MaxPid
       THEN /\ procs' = Append(procs, [name |-> Current, st |-> "live",
                                       sig |-> FALSE, parent |-> NoInv])
            /\ run' = [run EXCEPT !.pc = "open", !.pid = NextPid(procs)]
       ELSE /\ procs' = procs
            /\ run' = NextName(run)
  /\ UNCHANGED <<files, inv, res>>

\* fs.writeFileSync(pidFile, ...), first half: open(pidFile, "w") creates
\* the file or truncates it.
StepOpen ==
  /\ run.pc = "open"
  /\ files' = [files EXCEPT ![Current] = [exists |-> TRUE, data |-> <<>>]]
  /\ run' = [run EXCEPT !.pc = "write"]
  /\ UNCHANGED <<procs, inv, res>>

\* fs.writeFileSync, second half: the text goes to the file that was opened.
\* If that file was unlinked in between the text is lost with it (an empty
\* pid file can only be the one this invocation opened: every other writer
\* in SpecCalls writes in one step).
StepWrite ==
  /\ run.pc = "write"
  /\ files' = IF files[Current].exists /\ files[Current].data = <<>>
                THEN [files EXCEPT ![Current].data = toString(run.pid)]
                ELSE files
  /\ run' = NextName(run)
  /\ UNCHANGED <<procs, inv, res>>

\* A whole liveness query of another invocation: status, list, inspect, or
\* the check of a (detached) start.
QueryStep ==
  /\ \/ \E t \in Names \cup {All} : Status(t)
     \/ List
     \/ \E t \in Names : Inspect(t)
     \/ \E t \in Names \cup {All} : Start(t, TRUE, {})
  /\ UNCHANGED <<run, res>>

NextCalls ==
  \/ \E op \in Ops : Begin(op)
  \/ StepExists
  \/ StepRead
  \/ StepKill
  \/ StepUnlink
  \/ \E ok \in BOOLEAN : StepSpawn(ok)
  \/ StepOpen
  \/ StepWrite
  \/ \E t \in Names \cup {All} : Start(t, TRUE, {}) /\ UNCHANGED <<run, res>>
  \/ \E t \in Names \cup {All} : Stop(t) /\ UNCHANGED <<run, res>>
  \/ \E t \in Names \cup {All} : Status(t) /\ UNCHANGED <<run, res>>
  \/ List /\ UNCHANGED <<run, res>>
  \/ \E t \in Names : Inspect(t) /\ UNCHANGED <<run, res>>
  \/ \E p \in Pids : OsExit(p, TRUE) /\ UNCHANGED <<run, res>>

SpecCalls == Init /\ [][NextCalls]_vars

\* ---------------------------------------------------------------- C12
\* C12: a batch command attempts its operation on every configured name:
\* whatever happens on one name, also a pid file that another invocation
\* removes between this invocation's existence check and its read or
\* delete, the for loop comes to the remaining names.  So no batch ends
\* with names it has not come to.
C12_BatchAttemptsEveryName ==
  run.pc \in {"done", "thrown"} => Remaining = <<>>

\* ---------------------------------------------------------------- C16
\* The observed invocation has opened the pid file of n for the process it
\* has just spawned and has not yet written the pid.
Writing(n) ==
  run.pc = "write" /\ Current = n /\ Alive(procs, run.pid) /\ files[n].exists

\* C16: while Start(n) of one invocation is writing the PidRecord of n, a
\* liveness query of another invocation sees no record or the whole pid,
\* never an empty text; so the query does not delete the PidRecord of the
\* live process: the file is still there after the query.
C16_QueryKeepsRecordBeingWritten ==
  [][\A n \in Names : (QueryStep /\ Writing(n)) => files'[n].exists]_vars

\* ---------------------------------------------------------------- C13
\* C13: when the OS gives no pid for Start(n), a start failure is reported
\* for n, no PidRecord of n is written (none exists afterwards, and no
\* other file or process is touched), and a batch start still comes to
\* the remaining names: every configured name gets its report, and a name
\* the OS does spawn is started and recorded although another name failed
\* before or after it.  Stated of startProcess and of the loop of
\* startProcesses applied in every reachable state.
C13_SpawnFailureIsReportedAndSkipped ==
  \A w \in Worlds :
    LET spawns(n) == w.child[n] = NoChild /\ ~LiveRecord(files, procs, n) IN
    /\ \A n \in Names :
         spawns(n) =>
           LET r == startProcess(w, n, FALSE) IN
           /\ r.out = <<<<"FailedToStart", n>>>>
           /\ r.files = [files EXCEPT ![n] = NoFile]
           /\ r.procs = procs
    /\ \A bad \in SUBSET Names :
         LET r == startLoop(w, ConfigNames, bad) IN
         /\ ReportNames(r.out) = ConfigNames
         /\ \A n \in Names :
              /\ (spawns(n) /\ n \in bad) =>
                   /\ \E k \in 1..Len(r.out) : r.out[k] = <<"FailedToStart", n>>
                   /\ ~r.files[n].exists
              /\ (spawns(n) /\ n \notin bad /\ Names \ {n} \subseteq bad
                     /\ Len(procs) < MaxPid) =>
                   /\ \E k \in 1..Len(r.out) : r.out[k] = <<"Started", n>>
                   /\ Holds(r.files, n, NextPid(procs))
                   /\ Alive(r.procs, NextPid(procs))

\* After a batch start whose first name failed to spawn: the invocation
\* has no pid for the first name, which has no PidRecord, and holds the
\* live, recorded process of the second name.
C13_Witness ==
  \E i \in Slots :
    /\ inv[i].st = "alive"
    /\ inv[i].child[ConfigNames[1]] = BadChild
    /\ ~files[ConfigNames[1]].exists
    /\ Alive(procs, inv[i].child[ConfigNames[2]])
    /\ Holds(files, ConfigNames[2], inv[i].child[ConfigNames[2]])

\* ------------------------------------------------ environment and arguments
\* startProcess, lines 141-152.  A text is a sequence of characters.  A
\* value of an environment is a string, or a number (config.yaml is read by
\* yaml.load: README's `PORT: 8080` is a number); a number is kept by its
\* decimal text.  An object maps keys (texts) to values.
Str(text) == [t |-> "str", v |-> text]
Num(text) == [t |-> "num", v |-> text]
Undefined == [t |-> "undefined", v |-> <<>>]
\* Object.prototype, which every object literal inherits from; of its
\* properties the model carries `constructor`.
Constructor == <<"c", "o", "n", "s", "t", "r", "u", "c", "t", "o", "r">>
ObjectPrototype ==
  [k \in {Constructor} |-> [t |-> "function", v |-> <<"function Object() { [native code] }">>]]

\* { ...a, ...b }: the own properties of a, then those of b over them.
Spread(a, b) ==
  [k \in DOMAIN a \cup DOMAIN b |-> IF k \in DOMAIN b THEN b[k] ELSE a[k]]

\* const envVars = { ...process.env, ...defaultEnv, ...(cmdConfig.env || {}) }
envVars(sys, glob, proc) == Spread(Spread(sys, glob), proc)

\* obj[key]: an own property, else an inherited one, else undefined.
Get(obj, key) ==
  IF key \in DOMAIN obj THEN obj[key]
  ELSE IF key \in DOMAIN ObjectPrototype THEN ObjectPrototype[key]
  ELSE Undefined

\* x || "": the empty string takes the place of a falsy x (undefined, "",
\* the number 0).
OrEmpty(x) ==
  IF x.t = "undefined" \/ (x.t = "str" /\ x.v = <<>>) \/ (x.t = "num" /\ x.v = <<"0">>)
    THEN Str(<<>>) ELSE x

\* The text String.prototype.replace puts in for what the callback returns.
ToText(x) == x.v

\* \w of the pattern: the letters, digits and _ that occur in the model.
WordChars ==
  {"A", "B", "C", "x", "_", "0", "1", "2", "3"} \cup {Constructor[k] : k \in 1..Len(Constructor)}

RECURSIVE WordRun(_)
\* \w+ is greedy: the longest run of word characters at the start of s.
WordRun(s) ==
  IF s = <<>> \/ Head(s) \notin WordChars THEN <<>> ELSE <<Head(s)>> \o WordRun(Tail(s))

RECURSIVE replace(_, _)
\* arg.replace(/\$\{(\w+)\}/g, (_match, varName) => envVars[varName] || "")
\* scans arg from the left; what it puts in is not scanned again.
replace(arg, env) ==
  IF arg = <<>> THEN <<>>
  ELSE IF Len(arg) >= 2 /\ arg[1] = "$" /\ arg[2] = "{"
    THEN LET varName == WordRun(SubSeq(arg, 3, Len(arg)))
             end     == 3 + Len(varName)
         IN  IF varName # <<>> /\ end <= Len(arg) /\ arg[end] = "}"
               THEN ToText(OrEmpty(Get(env, varName)))
                      \o replace(SubSeq(arg, end + 1, Len(arg)), env)
               ELSE <<Head(arg)>> \o replace(Tail(arg), env)
    ELSE <<Head(arg)>> \o replace(Tail(arg), env)

\* What one startProcess computes: the env it hands to spawn and the
\* argument it hands to spawn for the template arg.
Resolved(sys, glob, proc, arg) ==
  LET env == envVars(sys, glob, proc) IN [env |-> env, arg |-> replace(arg, env)]

\* ---- the inputs SpecEnv draws
\* Number of pieces (placeholders and single characters) in a drawn
\* argument template.
MaxPieces == 2
\* Number of times the same inputs are resolved (a process is started
\* again).
MaxResolve == 2
EnvKeys == {<<"A">>, <<"B">>}
\* The names a template refers to: the keys, a name no layer defines, and a
\* name that no layer defines but Object.prototype does.
RefNames == EnvKeys \cup {<<"C">>, Constructor}
\* process.env holds strings; the layers of config.yaml strings and numbers.
SysValues == {Str(<<"1">>)}
GlobValues == {Str(<<"2">>), Num(<<"0">>)}
ProcValues == {Str(<<"3">>), Str(<<>>)}
Layers(values) == UNION {[K -> values] : K \in SUBSET EnvKeys}

\* A piece of a template: ${name}, or one character that is not part of a
\* placeholder.
Placeholder(name) == <<"$", "{">> \o name \o <<"}">>
Pieces == {Placeholder(n) : n \in RefNames} \cup {<<"-">>, <<"x">>}
\* The names and characters the pieces of a template stand for.
PieceSeqs == UNION {[1..n -> Pieces] : n \in 0..MaxPieces}
RECURSIVE Flatten(_)
Flatten(ps) == IF ps = <<>> THEN <<>> ELSE Head(ps) \o Flatten(Tail(ps))
\* The template of spec.md's example, "${A}-${B}-${C}".
Example ==
  <<Placeholder(<<"A">>), <<"-">>, Placeholder(<<"B">>), <<"-">>, Placeholder(<<"C">>)>>
Templates == PieceSeqs \cup {Example}

InitEnv ==
  /\ files = [n \in Targets |-> NoFile]
  /\ procs = <<>>
  /\ inv = [i \in Slots |-> FreeInv]
  /\ run = NoRun
  /\ \E sys \in Layers(SysValues), glob \in Layers(GlobValues),
        proc \in Layers(ProcValues), arg \in Templates :
       res = [sys |-> sys, glob |-> glob, proc |-> proc, arg |-> arg, outs |-> <<>>]

\* One startProcess resolves the environment and the argument.
Resolve ==
  /\ Len(res.outs) < MaxResolve
  /\ res' = [res EXCEPT !.outs =
               Append(@, Resolved(res.sys, res.glob, res.proc, Flatten(res.arg)))]
  /\ UNCHANGED <<files, procs, inv, run>>

NextEnv == Resolve

SpecEnv == InitEnv /\ [][NextEnv]_vars

\* ---------------------------------------------------------------- C14
\* The value of key in the three layers: that of the last layer that has
\* the key; Undefined when none has it.
Layered(sys, glob, proc, key) ==
  IF key \in DOMAIN proc THEN proc[key]
  ELSE IF key \in DOMAIN glob THEN glob[key]
  ELSE IF key \in DOMAIN sys THEN sys[key]
  ELSE Undefined

\* The text a piece of a template is to become.
Expected(sys, glob, proc, piece) ==
  IF \E n \in RefNames : piece = Placeholder(n)
    THEN LET n == CHOOSE m \in RefNames : piece = Placeholder(m)
         IN  Layered(sys, glob, proc, n).v
    ELSE piece

\* C14: the environment handed to spawn is the system environment
\* overridden by the global one overridden by the process's (the last
\* layer that has a key gives its value, and no other key is there); in
\* the argument every ${NAME} has become the merged value of NAME, or
\* nothing when no layer has NAME, and every other character is kept;
\* resolving the same inputs again gives the same.
C14_LayersAndSubstitution ==
  \A k \in 1..Len(res.outs) :
    LET o == res.outs[k] IN
    /\ DOMAIN o.env = DOMAIN res.sys \cup DOMAIN res.glob \cup DOMAIN res.proc
    /\ \A key \in DOMAIN o.env : o.env[key] = Layered(res.sys, res.glob, res.proc, key)
    /\ o.arg = Flatten([j \in 1..Len(res.arg) |->
                          Expected(res.sys, res.glob, res.proc, res.arg[j])])
    /\ o = res.outs[1]

\* ---------------------------------------------------------------- C15
\* What a file <name>.pid of a name that is not configured could hold: it
\* is absent, empty, or holds some pid (of a live process, a dead one or
\* none).
StrayFiles ==
  {NoFile, [exists |-> TRUE, data |-> <<>>]}
    \cup {[exists |-> TRUE, data |-> toString(p)] : p \in Pids}

\* The world w with the file <n>.pid being f.
WithFile(w, n, f) ==
  [w EXCEPT !.files = [t \in DOMAIN w.files \cup {n} |-> IF t = n THEN f ELSE w.files[t]]]

\* C15: inspect(n) for a name that is not a key of the configuration
\* reports the unknown name and changes nothing: the files (whatever
\* <n>.pid holds, if it is there), the processes and their pending signals,
\* and the invocation's handles are as before, and nothing else is
\* printed.  Stated of inspectProcess applied in every reachable state.
C15_InspectUnknownChangesNothing ==
  \A w \in Worlds, n \in {Unknown} \cup InheritedNames, f \in StrayFiles :
    LET v == WithFile(w, n, f)
        r == inspectProcess(v, n)
    IN  /\ r.out = <<<<"NotFound", n>>>>
        /\ Effect(r) = Effect(v)

\* ---------------------------------------------------------------- C17
\* C17, first half: a detached start ends with its invocation terminated
\* (no slot is taken), and every process it spawned is live, belongs to no
\* invocation and is the one the PidRecord of its name holds.
C17_DetachedStartEnds ==
  [][\A t \in Targets \cup {All} : \A bad \in SUBSET (ServiceSet(t) \cap Names) :
       Start(t, TRUE, bad) =>
         /\ inv' = inv
         /\ \A p \in PidsOf(procs') \ PidsOf(procs) :
              /\ Alive(procs', p)
              /\ Proc(procs', p).parent = NoInv
              /\ Holds(files', Proc(procs', p).name, p)]_vars

\* C17, second half: an invocation that an attached start left waiting
\* (stdin resumed) and that holds the handle of a process it spawned ends
\* only by an interrupt.
C17_AttachedStaysUntilInterrupt ==
  [][\A i \in Slots :
       ( /\ inv[i].st = "alive" /\ inv[i].held
         /\ \E n \in Names : inv[i].child[n] \in Pids
         /\ inv'[i].st = "free" )
       => Interrupt(i)]_vars

\* C17: a detached start returns after spawning and its invocation ends,
\* leaving every process it spawned live and recorded; an attached start
\* that spawned a process keeps its invocation alive until an interrupt.
C17_DetachedEndsAttachedStays ==
  C17_DetachedStartEnds /\ C17_AttachedStaysUntilInterrupt

\* ---------------------------------------------------------------- C18
\* C18, as a state invariant (every state of Spec is between whole
\* handlers, so no Start is mid-step): every live process of n that has
\* not been sent a termination signal is the one the PidRecord of n holds.
\* (Checked on runs that have not used up the model's pids, so that no
\* spawn failure is the model's own.)
C18_LiveProcessIsRecorded ==
  Len(procs) < MaxPid =>
    \A n \in Names : \A p \in Unsignalled(procs, n) : Holds(files, n, p)

\* C18, in particular: the exit callback run for process p leaves alone a
\* PidRecord that holds the pid of another process q that is still live.
C18_ExitKeepsRecordOfOthers ==
  [][\A p, q \in Pids, ok \in BOOLEAN :
       ( /\ OsExit(p, ok)
         /\ Len(procs) < MaxPid
         /\ q # p /\ Alive(procs, q)
         /\ Holds(files, Proc(procs, p).name, q) )
       => Holds(files', Proc(procs, p).name, q)]_vars

\* C18: no supervised process is orphaned from the PID store.
C18_NoProcessOrphaned ==
  []C18_LiveProcessIsRecorded /\ C18_ExitKeepsRecordOfOthers

\* ---------------------------------------------------------------- C19
\* C19: whenever an invocation holds a RuntimeHandle for n, the handle is
\* that of a spawned process (no handle remains of a failed spawn) and the
\* PidRecord of n exists and holds that process's pid (no handle remains
\* when a Stop has removed the record).  Every state of Spec is between
\* whole handlers, so outside the middle of a Start or Exit step.
C19_HandleMatchesRecord ==
  \A i \in Slots, n \in Names :
    (inv[i].st = "alive" /\ inv[i].child[n] # NoChild) =>
      /\ inv[i].child[n] \in Pids
      /\ Holds(files, n, inv[i].child[n])

\* ---------------------------------------------------------------- C20
\* n is stopped, or on its way there after a Stop: it has no PidRecord and
\* every process of n that is still live has been sent SIGTERM.
Stopped(fs, ps, n) == ~fs[n].exists /\ Unsignalled(ps, n) = {}

\* C20: after Stop(n), n stays stopped until a caller asks for start or
\* restart: the exit of a process of n, and what the invocation that
\* spawned it does when it hears of the exit, bring back neither a
\* PidRecord of n nor a process of n.
C20_StopIsNotUndone ==
  [][\A p \in Pids, ok \in BOOLEAN :
       ( /\ OsExit(p, ok)
         /\ Proc(procs, p).sig
         /\ Stopped(files, procs, Proc(procs, p).name) )
       => /\ Stopped(files', procs', Proc(procs, p).name)
          /\ LiveProcs(procs', Proc(procs, p).name)
               \subseteq LiveProcs(procs, Proc(procs, p).name)]_vars

====
